---- MODULE Spec2Model ----
(***************************************************************************)
(* Model of apify/agent-actor-inspector: src/utils.py (token accessor,     *)
(* identifier resolver, build/version fetchers, file tree builder) and     *)
(* src/tools_2.py (actor search tool, pricing tool).                       *)
(*                                                                         *)
(* Every operation is synchronous and single-threaded, so each one is one  *)
(* action; what the remote services answer and what the clock reads are    *)
(* inputs of the action, drawn from small sets.                            *)
(*                                                                         *)
(* Python values are encoded as follows.                                   *)
(*   - A str that the code takes apart (a file path) is a sequence of      *)
(*     characters; a str that the code only passes around or formats into  *)
(*     a message is a TLA+ string.                                         *)
(*   - An f-string is the sequence of its pieces.                          *)
(*   - A nested dict of generate_file_tree is a function from the key      *)
(*     paths (sequences of path segments) to "dir" (the value is a dict)   *)
(*     or "leaf" (the value is None); the keys of the dict at path p are   *)
(*     the paths p \o <<k>> of the domain.                                 *)
(*   - What a call ends in is a record [kind, msg]: kind "ok" for a        *)
(*     return, the exception class otherwise; the returned value is ret.   *)
(***************************************************************************)
EXTENDS Integers, Sequences, FiniteSets, TLC

VARIABLES
    env,        \* os.environ['APIFY_TOKEN']: a token, "" or Unset
    op,         \* the operation whose result the caller holds ("none": no result pending)
    args,       \* its arguments
    resps,      \* the remote responses it consumed, in order
    calls,      \* the remote calls it issued, in order
    tokenRead,  \* what os.getenv returned to it (NotRead: it never asked)
    out,        \* how it ended: [kind, msg]
    ret,        \* what it returned (NoValue when it raised)
    pricing,    \* the pricing loop's locals when it ended (NoValue: it did not run)
    prevOk,     \* the token-reading operation before it returned (FALSE: raised, or none)
    files,      \* generate_file_tree: the caller's list of records
    tree,       \* generate_file_tree: the local tree
    given,      \* generate_file_tree: the list as the caller built it
    results     \* generate_file_tree: what the calls made so far on files ended in

vars == <<env, op, args, resps, calls, tokenRead, out, ret, pricing, prevOk, files, tree, given, results>>

apiVars == <<env, op, args, resps, calls, tokenRead, out, ret, pricing, prevOk>>
treeVars == <<files, tree, given, results>>

(***************************************************************************)
(* Bounds                                                                  *)
(***************************************************************************)
MaxNameLen == 3     \* characters of a file path
MaxFiles == 2       \* records given to generate_file_tree
MaxRuns == 2        \* calls of generate_file_tree on the same list

Chars == {"a", "/"}

RECURSIVE SeqsUpTo(_, _)
SeqsUpTo(S, n) ==
    IF n = 0 THEN {<<>>}
    ELSE LET shorter == SeqsUpTo(S, n - 1)
         IN  shorter \cup {Append(s, x) : s \in shorter, x \in S}

Range(s) == {s[i] : i \in DOMAIN s}

Ok == [kind |-> "ok", msg |-> <<>>]
Raise(kind, msg) == [kind |-> kind, msg |-> msg]
NoValue == [none |-> TRUE]

(***************************************************************************)
(* generate_file_tree                                                      *)
(***************************************************************************)
\* A record of the input list: a dict that has the key 'name' or has not.
FileInfo ==
    {[has_name |-> TRUE, name |-> n] : n \in SeqsUpTo(Chars, MaxNameLen)}
        \cup {[has_name |-> FALSE, name |-> <<>>]}

FileLists == SeqsUpTo(FileInfo, MaxFiles)

\* str.split('/'): the segments between the slashes; never the empty list.
RECURSIVE Split(_)
Split(s) ==
    IF \A i \in DOMAIN s : s[i] # "/" THEN <<s>>
    ELSE LET i == CHOOSE k \in DOMAIN s : s[k] = "/" /\ \A j \in 1..(k - 1) : s[j] # "/"
         IN  <<SubSeq(s, 1, i - 1)>> \o Split(SubSeq(s, i + 1, Len(s)))

IsPrefix(p, q) == Len(p) <= Len(q) /\ SubSeq(q, 1, Len(p)) = p

EmptyTree == [p \in {} |-> "leaf"]

\* tree = {}
StaleTree == tree
FreshTree == EmptyTree

\* The value `current` is bound to: the tree itself at the root.
ValueAt(t, p) == IF p = <<>> THEN "dir" ELSE t[p]

\* current[part] = None: whatever the key held, a subtree included, is replaced.
SetLeaf(t, p) ==
    [q \in {r \in DOMAIN t : ~IsPrefix(p, r)} \cup {p} |->
        IF q = p THEN "leaf" ELSE t[q]]

\* if part not in current: current[part] = {}
SetDefaultDir(t, p) ==
    IF p \in DOMAIN t THEN t
    ELSE [q \in DOMAIN t \cup {p} |-> IF q = p THEN "dir" ELSE t[q]]

\* One round of the inner loop. st = [tree, current, out]; current is the key
\* path of the object `current` is bound to.
PartStep(st, part, isLast) ==
    IF st.out.kind # "ok" THEN st
    ELSE IF ValueAt(st.tree, st.current) = "leaf"
    THEN \* current is None: neither `part not in current` nor current[part] = None works
         [st EXCEPT !.out = Raise("TypeError", <<"'NoneType' object">>)]
    ELSE IF isLast
    THEN [st EXCEPT !.tree = SetLeaf(st.tree, Append(st.current, part))]
    ELSE [st EXCEPT !.tree = SetDefaultDir(st.tree, Append(st.current, part)),
                    !.current = Append(st.current, part)]

RECURSIVE PartsLoop(_, _, _)
PartsLoop(st, parts, i) ==
    IF i > Len(parts) THEN st
    ELSE PartsLoop(PartStep(st, parts[i], i = Len(parts)), parts, i + 1)

\* One round of the outer loop, for the record file_info.
FileStep(st, file_info) ==
    IF st.out.kind # "ok" THEN st
    ELSE IF ~file_info.has_name
    THEN [st EXCEPT !.out = Raise("KeyError", <<"name">>)]
    ELSE PartsLoop([st EXCEPT !.current = <<>>], Split(file_info.name), 1)

RECURSIVE FilesLoop(_, _, _)
FilesLoop(st, fs, i) ==
    IF i > Len(fs) THEN st
    ELSE FilesLoop(FileStep(st, fs[i]), fs, i + 1)

\* The whole call: the tree it built, how it ended, and the list afterwards
\* (the loops only read it).
generate_file_tree(fs) ==
    LET st == FilesLoop([tree |-> FreshTree, current |-> <<>>, out |-> Ok], fs, 1)
    IN  [out |-> st.out, tree |-> st.tree, files |-> fs]

Leaves(t) == {p \in DOMAIN t : t[p] = "leaf"}

(***************************************************************************)
(* The remote services, as the responses they may give                     *)
(***************************************************************************)
MaxSourceFiles == 1     \* source files of a version
MaxVersions == 2        \* versions of an actor

ActorNames == {"apify/rag-web-browser", "jane/my-actor"}
ActorIds == {"id1"}
\* An actor is addressed by its name or by its id.
ActorRefs == ActorNames \cup ActorIds

NoResp == [tag |-> "unused"]

\* apify_client.actor(x).get(): raises, returns None, or returns a dict. `keys`
\* are the keys the dict carries, id the value under 'id'.
ActorResponses ==
    {[tag |-> "raise"], [tag |-> "none"]}
        \cup {[tag |-> "dict", keys |-> {}, id |-> ""],
              [tag |-> "dict", keys |-> {"name"}, id |-> ""],
              [tag |-> "dict", keys |-> {"name", "id"}, id |-> ""]}
        \cup {[tag |-> "dict", keys |-> {"name", "id"}, id |-> i] : i \in ActorIds}

\* GET /v2/acts/{actor_id}/builds/default: the request raises (timeout, connection),
\* the body is not JSON, the JSON is not an object, or it is an object, with or
\* without 'data'. The data of a build: `keys` it carries, gitRepoUrl the value
\* under actVersion.gitRepoUrl ("" when absent).
BuildData ==
    {[keys |-> {}, gitRepoUrl |-> ""],
     [keys |-> {"actVersion"}, gitRepoUrl |-> ""],
     [keys |-> {"actVersion"}, gitRepoUrl |-> "https://github.com/a/build"]}

BuildResponses ==
    {[tag |-> "raise"], [tag |-> "not_json"], [tag |-> "list"],
     [tag |-> "dict", has_data |-> FALSE, data |-> NoValue]}
        \cup {[tag |-> "dict", has_data |-> TRUE, data |-> d] : d \in BuildData}

\* A source file of a version: format is the value under 'format' ("" when absent).
SourceFiles == {[format |-> f] : f \in {"TEXT", "BASE64"}}

\* A version: has_sourceFiles says whether version.get('sourceFiles') is a list;
\* gitRepoUrl is "" when the version has none.
Versions ==
    {[buildTag |-> b, gitRepoUrl |-> g, has_sourceFiles |-> TRUE, sourceFiles |-> sf] :
        b \in {"latest", "beta"},
        g \in {"", "https://github.com/a/version"},
        sf \in SeqsUpTo(SourceFiles, MaxSourceFiles)}
    \cup
    {[buildTag |-> b, gitRepoUrl |-> g, has_sourceFiles |-> FALSE, sourceFiles |-> <<>>] :
        b \in {"latest", "beta"},
        g \in {"", "https://github.com/a/version"}}

\* apify_client.actor(id).versions().list(): raises or returns a page of items.
VersionsResponses ==
    {[tag |-> "raise"]}
        \cup {[tag |-> "items", items |-> vs] : vs \in SeqsUpTo(Versions, MaxVersions)}

\* A remote call, as issued.
Call(api, ident) == [api |-> api, ident |-> ident]

\* What a function hands back to the code that called it: how it ended, its
\* value, the remote calls it issued and the responses it consumed.
Result(o, v, cs, rs) == [out |-> o, ret |-> v, calls |-> cs, resps |-> rs]

(***************************************************************************)
(* get_actor_id                                                            *)
(***************************************************************************)
\* not actor: None and the empty dict are falsy.
ActorMissing(actor) == actor.tag = "none" \/ (actor.tag = "dict" /\ actor.keys = {})

\* not actor.get('id'): a missing key gives None; None and '' are falsy.
NeverMissing(actor) == FALSE
IdMissing(actor) == "id" \notin actor.keys \/ actor.id = ""

\* The remote calls one lookup of the actor record issues.
LookupTwice(actor_name) == <<Call("actor.get", actor_name), Call("actor.get", actor_name)>>
LookupCalls(actor_name) == <<Call("actor.get", actor_name)>>

get_actor_id(actor_name, actor) ==
    IF actor.tag = "raise"
    THEN Result(Raise("ApifyApiError", <<"actor.get">>), NoValue,
                LookupCalls(actor_name), <<actor>>)
    ELSE IF ActorMissing(actor)
    THEN Result(Raise("ValueError", <<"Actor ", actor_name, " not found.">>), NoValue,
                LookupCalls(actor_name), <<actor>>)
    ELSE IF IdMissing(actor)
    THEN Result(Raise("ValueError",
                      <<"Failed to get the Actor object ID for ", actor_name, ".">>),
                NoValue, LookupCalls(actor_name), <<actor>>)
    ELSE Result(Ok, actor.id, LookupCalls(actor_name), <<actor>>)

(***************************************************************************)
(* get_actor_latest_build                                                  *)
(***************************************************************************)
\* (data := build.get('data')) is None
DataNeverMissing(build) == FALSE
DataMissing(build) == ~build.has_data

get_actor_latest_build(actor_name, actor, build) ==
    LET a == get_actor_id(actor_name, actor)
        cs == Append(a.calls, Call("GET builds/default", a.ret))
        rs == Append(a.resps, build)
    IN  IF a.out.kind # "ok" THEN a
        ELSE IF build.tag = "raise"
        THEN Result(Raise("RequestException", <<"requests.request">>), NoValue, cs, rs)
        ELSE IF build.tag = "not_json"
        THEN Result(Raise("JSONDecodeError", <<"response.json">>), NoValue, cs, rs)
        ELSE IF build.tag # "dict"
        THEN Result(Raise("TypeError",
                          <<"Failed to get the latest build of the Actor ", actor_name, ".">>),
                    NoValue, cs, rs)
        ELSE IF DataMissing(build)
        THEN Result(Raise("ValueError",
                          <<"Failed to get the latest build data of the Actor ",
                            actor_name, ".">>),
                    NoValue, cs, rs)
        ELSE Result(Ok, build.data, cs, rs)

(***************************************************************************)
(* get_actor_source_files                                                  *)
(***************************************************************************)
\* str.lower() on the formats the model draws.
Lower(f) ==
    CASE f = "TEXT" -> "text"
      [] f = "BASE64" -> "base64"
      [] OTHER -> f

IsLatest(version) == version.buildTag = "latest"
IsText(file) == Lower(file.format) = "text"

get_actor_source_files(actor_name, actor, versions) ==
    LET a == get_actor_id(actor_name, actor)
        cs == Append(a.calls, Call("versions.list", a.ret))
        rs == Append(a.resps, versions)
    IN  IF a.out.kind # "ok" THEN a
        ELSE IF versions.tag = "raise"
        THEN Result(Raise("ApifyApiError", <<"versions.list">>), NoValue, cs, rs)
        ELSE LET latest == SelectSeq(versions.items, IsLatest)
             IN  IF latest = <<>> THEN Result(Ok, <<>>, cs, rs)
                 ELSE IF ~Head(latest).has_sourceFiles
                 THEN \* filter(f, None)
                      Result(Raise("TypeError", <<"'NoneType' object is not iterable">>),
                             NoValue, cs, rs)
                 ELSE Result(Ok, SelectSeq(Head(latest).sourceFiles, IsText), cs, rs)

(***************************************************************************)
(* get_actor_github_urls                                                   *)
(***************************************************************************)
HasRepoUrl(version) == version.gitRepoUrl # ""
RepoUrl(version) == version.gitRepoUrl

\* [version.get('gitRepoUrl') for version in versions if version.get('gitRepoUrl')]
RepoUrls(versions) ==
    LET with_url == SelectSeq(versions, HasRepoUrl)
    IN  [i \in DOMAIN with_url |-> RepoUrl(with_url[i])]

\* actor_again answers the lookup get_actor_latest_build makes with the id.
get_actor_github_urls(actor_name, actor, actor_again, build, versions) ==
    LET a == get_actor_id(actor_name, actor)
        b == get_actor_latest_build(a.ret, actor_again, build)
        cs == Append(a.calls \o b.calls, Call("versions.list", a.ret))
        rs == Append(a.resps \o b.resps, versions)
    IN  IF a.out.kind # "ok" THEN a
        ELSE IF b.out.kind # "ok"
        THEN Result(b.out, NoValue, a.calls \o b.calls, a.resps \o b.resps)
        ELSE IF versions.tag = "raise"
        THEN Result(Raise("ApifyApiError", <<"versions.list">>), NoValue, cs, rs)
        ELSE Result(Ok,
                    (IF b.ret.gitRepoUrl # "" THEN <<b.ret.gitRepoUrl>> ELSE <<>>)
                        \o RepoUrls(versions.items),
                    cs, rs)

(***************************************************************************)
(* get_apify_token                                                         *)
(***************************************************************************)
Unset == "<unset>"      \* os.getenv returns None
NotRead == "<not read>"
EnvValues == {Unset, "", "tok"}

\* os.getenv('APIFY_TOKEN')
os_getenv_cached == IF tokenRead \in {NotRead, Unset, ""} THEN env ELSE tokenRead
os_getenv == env

\* not token: None and '' are falsy.
get_apify_token(token) ==
    IF token \in {Unset, ""}
    THEN Result(Raise("ValueError", <<"APIFY_TOKEN environment variable is not set">>),
                NoValue, <<>>, <<>>)
    ELSE Result(Ok, token, <<>>, <<>>)

(***************************************************************************)
(* SearchRelatedActorsTool._run                                            *)
(***************************************************************************)
MaxItems == 1           \* items of a page of search results
DefaultLimit == 10
DefaultOffset == 0

Searches == {"web scraper", "rag"}

\* apify_client.store().list(...): raises or returns a page of items, each of
\* which conforms to the schema of ActorStoreList or does not.
StoreResponses ==
    {[tag |-> "raise"]}
        \cup {[tag |-> "items", items |-> xs] :
                xs \in SeqsUpTo({"conforming", "nonconforming"}, MaxItems)}

StoreCall(token, search, limit, offset) ==
    [api |-> "store.list", ident |-> search, limit |-> limit, offset |-> offset,
     token |-> token]

ActorStoreList_model_validate(items) ==
    IF \A i \in DOMAIN items : items[i] = "conforming"
    THEN Ok
    ELSE Raise("ValidationError", <<"ActorStoreList">>)

\* f"Failed to search for Actors related to '{search}': {e}"
SearchFailed(search, e) ==
    Raise("ValueError", <<"Failed to search for Actors related to '", search, "': ">> \o e.msg)

SearchRelatedActorsTool_run(search, limit, offset, token, store) ==
    LET t == get_apify_token(token)
        cs == <<StoreCall(t.ret, search, limit, offset)>>
    IN  IF t.out.kind # "ok"
        THEN Result(SearchFailed(search, t.out), NoValue, <<>>, <<>>)
        ELSE IF store.tag = "raise"
        THEN Result(SearchFailed(search, Raise("ApifyApiError", <<"store.list">>)),
                    NoValue, cs, <<store>>)
        ELSE LET v == ActorStoreList_model_validate(store.items)
             IN  Result(v, IF v.kind = "ok" THEN store.items ELSE NoValue, cs, <<store>>)

(***************************************************************************)
(* tool_get_actor_pricing_information                                      *)
(***************************************************************************)
MaxTime == 3            \* startedAt and the clock range over 0..MaxTime
MaxPricing == 3         \* entries of pricingInfos

PricingEntries == {[startedAt |-> t] : t \in 0..MaxTime}
PricingLists == SeqsUpTo(PricingEntries, MaxPricing)

\* apify_client.actor(actor_id).get(), as far as this tool reads it.
PricingActorResponses ==
    {[tag |-> "raise"], [tag |-> "none"],
     [tag |-> "dict", keys |-> {}, pricingInfos |-> <<>>],
     [tag |-> "dict", keys |-> {"id"}, pricingInfos |-> <<>>]}
        \cup {[tag |-> "dict", keys |-> {"id", "pricingInfos"}, pricingInfos |-> ps] :
                ps \in PricingLists}

\* What datetime.now() returns in the successive rounds of a loop of n rounds.
ClockReads(n) ==
    {r \in [1..n -> 0..MaxTime] : \A i \in 1..n : \A j \in i..n : r[i] <= r[j]}

TokenCall(token, api, ident) == [api |-> api, ident |-> ident, token |-> token]

\* pricing_entry.get('startedAt') > datetime.datetime.now(datetime.timezone.utc)
StartsAtOrAfter(pricing_entry, now) == pricing_entry.startedAt >= now
StartsAfter(pricing_entry, now) == pricing_entry.startedAt > now

\* The loop over pricing_info from round i on. current is the index of
\* current_pricing (0: None); scanned counts the entries compared with the clock.
RECURSIVE PricingLoop(_, _, _, _)
PricingLoop(pricing_info, reads, i, current) ==
    IF i > Len(pricing_info)
    THEN [current |-> current, scanned |-> i - 1, reads |-> SubSeq(reads, 1, i - 1)]
    ELSE IF StartsAfter(pricing_info[i], reads[i])
    THEN [current |-> current, scanned |-> i, reads |-> SubSeq(reads, 1, i)]
    ELSE PricingLoop(pricing_info, reads, i + 1, i)

\* not actor.get('pricingInfos'): a missing key gives None; None and [] are falsy.
PricingMissing(actor) == "pricingInfos" \notin actor.keys \/ actor.pricingInfos = <<>>

\* Reached the loop: the token is set, the actor found, the list non-empty.
ReachesLoop(token, actor) ==
    /\ get_apify_token(token).out.kind = "ok"
    /\ actor.tag = "dict" /\ actor.keys # {}
    /\ ~PricingMissing(actor)

PricingInfo_model_validate(current) ==
    IF current = 0
    THEN Raise("ValidationError", <<"PricingInfo">>)
    ELSE Ok

\* The whole tool; the result carries the loop's locals as well.
tool_get_actor_pricing_information(actor_id, token, actor, reads) ==
    LET t == get_apify_token(token)
        cs == <<TokenCall(t.ret, "actor.get", actor_id)>>
        loop == PricingLoop(actor.pricingInfos, reads, 1, 0)
        v == PricingInfo_model_validate(loop.current)
        With(r, l) == [out |-> r.out, ret |-> r.ret, calls |-> r.calls,
                       resps |-> r.resps, pricing |-> l]
    IN  IF t.out.kind # "ok" THEN With(t, NoValue)
        ELSE IF actor.tag = "raise"
        THEN With(Result(Raise("ApifyApiError", <<"actor.get">>), NoValue, cs, <<actor>>),
                  NoValue)
        ELSE IF ActorMissing(actor)
        THEN With(Result(Raise("ValueError", <<"Actor ", actor_id, " not found.">>),
                         NoValue, cs, <<actor>>),
                  NoValue)
        ELSE IF PricingMissing(actor)
        THEN With(Result(Raise("ValueError",
                               <<"Failed to find pricing information for the Actor ",
                                 actor_id, ".">>),
                         NoValue, cs, <<actor>>),
                  NoValue)
        ELSE With(Result(v, IF v.kind = "ok" THEN actor.pricingInfos[loop.current]
                                             ELSE NoValue,
                         cs, <<actor>>),
                  loop)

(***************************************************************************)
(* The operations as actions                                               *)
(***************************************************************************)
TokenOps == {"get_apify_token", "SearchRelatedActorsTool._run",
             "tool_get_actor_pricing_information"}

InitApi ==
    /\ env \in EnvValues
    /\ op = "none" /\ args = NoValue /\ resps = <<>> /\ calls = <<>>
    /\ tokenRead = NotRead /\ out = Ok /\ ret = NoValue
    /\ pricing = NoValue /\ prevOk = FALSE

InitNoTree ==
    /\ files = <<>> /\ given = <<>> /\ tree = EmptyTree /\ results = <<>>

\* The call of `name` with arguments a ended as r says.
Finish(name, a, r) ==
    /\ op' = name
    /\ args' = a
    /\ resps' = r.resps
    /\ calls' = r.calls
    /\ out' = r.out
    /\ ret' = r.ret

\* The calls are made one after the other: the next starts when the caller has
\* taken the result of the last.
Idle == op = "none"

TakeResult ==
    /\ ~Idle
    /\ Finish("none", NoValue, Result(Ok, NoValue, <<>>, <<>>))
    /\ pricing' = NoValue
    /\ prevOk' = IF op \in TokenOps THEN out.kind = "ok" ELSE prevOk
    /\ UNCHANGED <<env, tokenRead, treeVars>>

\* The process environment changes between two calls.
SetEnv ==
    /\ Idle
    /\ \E v \in EnvValues :
        /\ v # env
        /\ env' = v
        /\ UNCHANGED <<op, args, resps, calls, tokenRead, out, ret, pricing, prevOk,
                       treeVars>>

GetApifyToken ==
    /\ Idle
    /\ LET token == os_getenv
       IN  /\ Finish("get_apify_token", NoValue, get_apify_token(token))
           /\ tokenRead' = token
           /\ UNCHANGED <<env, pricing, prevOk, treeVars>>

SearchRelatedActors ==
    /\ Idle
    /\ \E search \in Searches, store \in StoreResponses :
        LET token == os_getenv
        IN  /\ Finish("SearchRelatedActorsTool._run",
                      [search |-> search, limit |-> DefaultLimit, offset |-> DefaultOffset],
                      SearchRelatedActorsTool_run(search, DefaultLimit, DefaultOffset,
                                                  token, store))
            /\ tokenRead' = token
            /\ UNCHANGED <<env, pricing, prevOk, treeVars>>

ToolGetActorPricingInformation ==
    /\ Idle
    /\ \E actor_id \in ActorRefs, actor \in PricingActorResponses :
        LET token == os_getenv
        IN  \E reads \in (IF ReachesLoop(token, actor)
                          THEN ClockReads(Len(actor.pricingInfos)) ELSE {<<>>}) :
                LET r == tool_get_actor_pricing_information(actor_id, token, actor, reads)
                IN  /\ Finish("tool_get_actor_pricing_information",
                              [actor_id |-> actor_id], r)
                    /\ pricing' = r.pricing
                    /\ tokenRead' = token
                    /\ UNCHANGED <<env, prevOk, treeVars>>

GetActorId ==
    /\ Idle
    /\ \E actor_name \in ActorRefs, actor \in ActorResponses :
        /\ Finish("get_actor_id", [actor_name |-> actor_name],
                  get_actor_id(actor_name, actor))
        /\ UNCHANGED <<env, tokenRead, pricing, prevOk, treeVars>>

GetActorLatestBuild ==
    /\ Idle
    /\ \E actor_name \in ActorRefs, actor \in ActorResponses :
        \E build \in (IF get_actor_id(actor_name, actor).out.kind = "ok"
                      THEN BuildResponses ELSE {NoResp}) :
            /\ Finish("get_actor_latest_build", [actor_name |-> actor_name],
                      get_actor_latest_build(actor_name, actor, build))
            /\ UNCHANGED <<env, tokenRead, pricing, prevOk, treeVars>>

GetActorSourceFiles ==
    /\ Idle
    /\ \E actor_name \in ActorRefs, actor \in ActorResponses :
        \E versions \in (IF get_actor_id(actor_name, actor).out.kind = "ok"
                         THEN VersionsResponses ELSE {NoResp}) :
            /\ Finish("get_actor_source_files", [actor_name |-> actor_name],
                      get_actor_source_files(actor_name, actor, versions))
            /\ UNCHANGED <<env, tokenRead, pricing, prevOk, treeVars>>

GetActorGithubUrls ==
    /\ Idle
    /\ \E actor_name \in ActorRefs, actor \in ActorResponses :
        LET a == get_actor_id(actor_name, actor)
        IN  \E actor_again \in (IF a.out.kind = "ok" THEN ActorResponses ELSE {NoResp}) :
            \E build \in (IF a.out.kind = "ok"
                             /\ get_actor_id(a.ret, actor_again).out.kind = "ok"
                          THEN BuildResponses ELSE {NoResp}) :
            \E versions \in (IF a.out.kind = "ok"
                                /\ get_actor_latest_build(a.ret, actor_again, build).out.kind
                                       = "ok"
                             THEN VersionsResponses ELSE {NoResp}) :
                /\ Finish("get_actor_github_urls", [actor_name |-> actor_name],
                          get_actor_github_urls(actor_name, actor, actor_again, build,
                                                versions))
                /\ UNCHANGED <<env, tokenRead, pricing, prevOk, treeVars>>

InitTree ==
    /\ files \in FileLists
    /\ given = files
    /\ tree = EmptyTree
    /\ results = <<>>
    /\ InitApi /\ env = "tok"

GenerateFileTree ==
    /\ Len(results) < MaxRuns
    /\ LET r == generate_file_tree(files)
       IN  /\ tree' = r.tree
           /\ files' = r.files
           /\ results' = Append(results, [out |-> r.out, tree |-> r.tree])
    /\ UNCHANGED <<given, apiVars>>

NextTree == GenerateFileTree

SpecTree == InitTree /\ [][NextTree]_vars

\* The resolver and the fetchers, which are handed a client and read no token.
InitFetch == InitApi /\ env = "tok" /\ InitNoTree

NextFetch ==
    \/ TakeResult
    \/ GetActorId
    \/ GetActorLatestBuild
    \/ GetActorSourceFiles
    \/ GetActorGithubUrls

SpecFetch == InitFetch /\ [][NextFetch]_vars

\* The token accessor and the two tools, in an environment that changes.
Init == InitApi /\ InitNoTree

Next ==
    \/ TakeResult
    \/ SetEnv
    \/ GetApifyToken
    \/ SearchRelatedActors
    \/ ToolGetActorPricingInformation

Spec == Init /\ [][Next]_vars

AllNamed == \A k \in DOMAIN files : files[k].has_name
\* Every record carries a name whose segments are all non-empty.
WellFormed ==
    \A k \in DOMAIN files :
        /\ files[k].has_name
        /\ \A i \in DOMAIN Split(files[k].name) : Split(files[k].name)[i] # <<>>
DistinctPaths == {files[k].name : k \in DOMAIN files}

\* C3: when generate_file_tree returns, its mapping has exactly as many leaves
\* (keys mapped to None) as the input has distinct full paths, also when one
\* path is a proper directory prefix of another.
C3_LeafCountIsDistinctPaths ==
    \A i \in DOMAIN results :
        (WellFormed /\ results[i].out.kind = "ok") =>
            Cardinality(Leaves(results[i].tree)) = Cardinality(DistinctPaths)

\* C4: generate_file_tree returns a mapping for every list of records that all
\* carry a name, in any order; it raises only for a record without the name key.
C4_NoErrorForNamedRecords ==
    \A i \in DOMAIN results :
        /\ WellFormed => results[i].out.kind = "ok"
        /\ ~AllNamed => results[i].out.kind # "ok"

Max(S) == CHOOSE x \in S : \A y \in S : y <= x
Min(S) == CHOOSE x \in S : \A y \in S : x <= y
Abs(x) == IF x < 0 THEN -x ELSE x

PricingCalled == op = "tool_get_actor_pricing_information"
LoopRan == PricingCalled /\ pricing # NoValue
Infos == resps[1].pricingInfos
Sorted(ps) == \A i \in DOMAIN ps : \A j \in DOMAIN ps : i <= j => ps[i].startedAt <= ps[j].startedAt
\* The clock as the loop read it last.
NowAtEnd == pricing.reads[pricing.scanned]

\* C1: on a list sorted ascending by startedAt the loop selects the last entry, in
\* list order, whose startedAt is not after now (equal to now counts), and stops
\* scanning at the first entry whose startedAt is after now; now is the clock as the
\* loop read it last. The entry returned is the selected one.
C1_SelectsLastStarted ==
    (LoopRan /\ Sorted(Infos)) =>
        /\ pricing.current =
               Max({0} \cup {i \in DOMAIN Infos : Infos[i].startedAt <= NowAtEnd})
        /\ pricing.scanned =
               Min({Len(Infos)} \cup {i \in DOMAIN Infos : Infos[i].startedAt > NowAtEnd})
        /\ out.kind = "ok" => ret = Infos[pricing.current]

\* Three sorted entries, the third in the future and closer to now than the second,
\* which is selected.
C1_Witness ==
    /\ LoopRan /\ Sorted(Infos) /\ Len(Infos) = 3
    /\ pricing.current = 2 /\ pricing.scanned = 3 /\ out.kind = "ok"
    /\ Abs(Infos[3].startedAt - NowAtEnd) < Abs(Infos[2].startedAt - NowAtEnd)

ActorFound ==
    PricingCalled /\ resps # <<>> /\ resps[1].tag = "dict" /\ resps[1].keys # {}
NoEntryQualifies ==
    \/ "pricingInfos" \in resps[1].keys /\ resps[1].pricingInfos = <<>>
    \/ pricing # NoValue /\ pricing.current = 0
IsDataError(o) == o.kind \in {"ValueError", "ValidationError", "TypeError", "KeyError"}

\* C2: when the actor is found and no pricing entry qualifies (the list is empty,
\* or every entry starts in the future) the tool reports "no active pricing": not
\* the "not found" outcome, and not an error about missing or invalid data.
C2_NoActivePricingIsDistinct ==
    (ActorFound /\ NoEntryQualifies) =>
        /\ out # Raise("ValueError", <<"Actor ", args.actor_id, " not found.">>)
        /\ ~IsDataError(out)

Identifier ==
    CASE op = "SearchRelatedActorsTool._run" -> args.search
      [] op = "tool_get_actor_pricing_information" -> args.actor_id
      [] op = "get_actor_latest_build" -> args.actor_name

\* C8: every failure of SearchRelatedActorsTool._run, of
\* tool_get_actor_pricing_information and of get_actor_latest_build reaches the
\* caller as the wrapping error, whose message names the identifier used; no
\* exception of the transport or of the validation escapes as it was raised.
C8_EveryFailureWrapped ==
    (op \in {"SearchRelatedActorsTool._run", "tool_get_actor_pricing_information",
             "get_actor_latest_build"} /\ out.kind # "ok") =>
        /\ out.kind = "ValueError"
        /\ Identifier \in Range(out.msg)

\* C9: a token-reading operation reads the variable as it is at the call; when it
\* is unset or empty the operation fails and has issued no remote call; a remote
\* call carries the token read at this call.
C9_TokenReadEachCall ==
    op \in TokenOps =>
        /\ tokenRead = env
        /\ env \in {Unset, ""} => (out.kind # "ok" /\ calls = <<>>)
        /\ \A i \in DOMAIN calls : calls[i].token = env

\* A search that fails for want of the token, right after a call that succeeded.
C9_Witness ==
    /\ op = "SearchRelatedActorsTool._run"
    /\ prevOk
    /\ env \in {Unset, ""}
    /\ out.kind = "ValueError" /\ calls = <<>>

(***************************************************************************)
(* Properties of the resolver and of the fetchers (SpecFetch)              *)
(***************************************************************************)
\* C6: get_actor_id fails with a not-found error whose message contains the name
\* when the lookup returns no record, fails with an error naming the name when the
\* record has no id, and returns exactly when the record carries a non-empty id,
\* which is then the value returned.
C6_ActorIdOrError ==
    op = "get_actor_id" =>
        LET actor == resps[1]
            named == args.actor_name \in Range(out.msg)
        IN  /\ actor.tag = "none" =>
                 out = Raise("ValueError", <<"Actor ", args.actor_name, " not found.">>)
            /\ (actor.tag = "dict" /\ "id" \notin actor.keys) =>
                 (out.kind = "ValueError" /\ named)
            /\ out.kind = "ok" <=>
                 (actor.tag = "dict" /\ "id" \in actor.keys /\ actor.id # "")
            /\ out.kind = "ok" => ret = actor.id

C6_Witness ==
    /\ op = "get_actor_id"
    /\ resps[1].tag = "none"
    /\ out.kind = "ValueError" /\ args.actor_name \in Range(out.msg)

Answered == Len(resps) = 2
NoLatest == \A i \in DOMAIN resps[2].items : resps[2].items[i].buildTag # "latest"
Failing(r) == r.tag \in {"raise", "none", "not_json", "list"}

\* C7 as stated: both "no version tagged latest" and "no build data" are empty
\* results, not errors.
C7_NoMatchIsEmptyResult ==
    /\ (op = "get_actor_source_files" /\ Answered /\ resps[2].tag = "items" /\ NoLatest) =>
           (out.kind = "ok" /\ ret = <<>>)
    /\ (op = "get_actor_latest_build" /\ Answered /\ resps[2].tag = "dict"
            /\ ~resps[2].has_data) =>
           out.kind = "ok"

\* C7 amended: get_actor_source_files returns the empty list when no version is
\* tagged latest; get_actor_latest_build raises a ValueError naming the actor when
\* the response carries no build data; a remote call that fails makes either fail.
C7_OnlyNoLatestVersionIsEmpty ==
    /\ (op = "get_actor_source_files" /\ Answered /\ resps[2].tag = "items" /\ NoLatest) =>
           (out.kind = "ok" /\ ret = <<>>)
    /\ (op = "get_actor_latest_build" /\ Answered /\ resps[2].tag = "dict"
            /\ ~resps[2].has_data) =>
           (out.kind = "ValueError" /\ args.actor_name \in Range(out.msg))
    /\ (op \in {"get_actor_source_files", "get_actor_latest_build"}
            /\ \E i \in DOMAIN resps : Failing(resps[i])) =>
           out.kind # "ok"

C7_Witness ==
    /\ op = "get_actor_latest_build" /\ Answered
    /\ resps[2].tag = "dict" /\ ~resps[2].has_data
    /\ out.kind = "ValueError"

FetchOps == {"get_actor_id", "get_actor_latest_build", "get_actor_source_files",
             "get_actor_github_urls"}
Lookups == {i \in DOMAIN calls : calls[i].api = "actor.get"}

====
